---- MODULE Spec2Model ----
(***************************************************************************)
(* State-machine model of the resume / job-match / interview-prep backend. *)
(* Every handler of the Express controllers is one action; the database    *)
(* collections (parsed_resumes, users, job_matches, interview_preps) and   *)
(* the GridFS bucket are the state.                                        *)
(***************************************************************************)
EXTENDS Integers, Sequences, FiniteSets, TLC

\* ------------------------------------------------------------------ bounds
Users == {"u1", "u2"}
MaxUploads == 4
MaxConcUploads == 3
MaxJobs == 2
MaxMatches == 2
ScoreMargin == 2
MaxApplyCalls == 3
MaxTime == 2
MaxPreps == 1
MaxQuestions == 2
MaxPracticed == 2
MaxSessions == 2
MaxUsers == 2
MaxExtraJobs == 1
Procs == {"p1", "p2"}
Skills == {"Go"}

Null == 0

VARIABLES
  resumes,         \* parsed_resumes collection: set of documents
  activeResumeId,  \* users collection: User.activeResumeId per user
  files,           \* GridFS bucket: ids of the stored files
  nextId,          \* number of ObjectIds handed out for resumes/files so far
  res,             \* the last HTTP response sent
  calls,           \* in-flight uploadResume calls (position of each request)
  jobMatches,      \* job_matches collection: set of documents
  nextMatchId,     \* number of ObjectIds handed out for job matches so far
  analytics,       \* users collection: User.analytics per user
  scoringLog,      \* history: what the scoring collaborator answered for each stored match
  rejected,        \* history: the answers of the batch the last discoverJobs failed to insert
  now,             \* the server clock read by new Date()
  preps,           \* interview_preps collection: set of documents
  nextPrepId,      \* number of ObjectIds handed out for interview preps so far
  accounts,        \* users collection: the registered User documents
  nextUserId,      \* number of ObjectIds handed out for users so far
  regCalls,        \* in-flight register calls (position of each request)
  inflight         \* the document each in-flight request holds between its findOne and its save

resumeVars == <<resumes, activeResumeId, files, nextId, calls>>
jobVars == <<jobMatches, nextMatchId, analytics, scoringLog, rejected, now>>
prepVars == <<preps, nextPrepId>>
authVars == <<accounts, nextUserId, regCalls>>
flightVars == <<inflight>>
vars == <<resumeVars, res, jobVars, prepVars, authVars, flightVars>>

\* ---------------------------------------------------------- resume domain

\* What the collaborators hand to one uploadResume call.
UploadInputs ==
  [store : BOOLEAN,            \* uploadToGridFS resolves
   parse : BOOLEAN,            \* parsePDF resolves
   textEmpty : BOOLEAN,        \* parsedPDF.text is ''
   experienceValid : BOOLEAN,  \* every experience/education entry has its required fields
   skills : SUBSET Skills,
   experience : {<<>>},
   education : {<<>>},
   \* geminiModel.generateContent resolves with JSON, rejects, or resolves
   \* with text JSON.parse refuses
   structuring : {"ok", "throws", "unparseable"}]

OkInputs == {in \in UploadInputs : in.store /\ in.parse /\ ~in.textEmpty /\ in.experienceValid}

NoResponse == [op |-> "none", user |-> "none", id |-> Null, status |-> Null]
Response(op, u, id, status) == [op |-> op, user |-> u, id |-> id, status |-> status]

ResumesOf(rs, u) == {r \in rs : r.userId = u}
ActiveOf(rs, u) == {r \in rs : r.userId = u /\ r.isActive}

\* ParsedResume.updateMany({userId, isActive: true}, {isActive: false})
DeactivateAll_None(rs, u) == rs

DeactivateAll_OthersOnly(rs, u) ==
  {IF r.userId /= u /\ r.isActive THEN [r EXCEPT !.isActive = FALSE] ELSE r : r \in rs}

DeactivateAll(rs, u) ==
  {IF r.userId = u /\ r.isActive THEN [r EXCEPT !.isActive = FALSE] ELSE r : r \in rs}

\* fallbackParser: the lists are built from the raw text by the extract*
\* helpers, whose entries always carry company, role and institution
fallbackParser(in) == [in EXCEPT !.experienceValid = TRUE]

analyzeResume_NoFallback(in) == in

\* analyzeResume: the collaborator's payload, or fallbackParser's when the
\* call or JSON.parse throws (the catch returns, it never rethrows)
analyzeResume(in) == IF in.structuring = "ok" THEN in ELSE fallbackParser(in)

\* parsedResumeSchema validation run by ParsedResume.create:
\* rawText is required, experience/education entries have required fields.
ResumeValid(in) == ~in.textEmpty /\ analyzeResume(in).experienceValid

\* The document ParsedResume.create stores.
\* the structuredJson sub-document written from the analyzer's payload
StructuredJson(out) ==
  [skills |-> out.skills, experience |-> out.experience, education |-> out.education]

NewResume(id, u, in) ==
  [id |-> id, userId |-> u, gridFSFileId |-> id, isActive |-> TRUE,
   structuredJson |-> StructuredJson(in),
   skills |-> in.skills, experience |-> in.experience, education |-> in.education]

\* ---- uploadResume, one request run from start to finish
UploadResume(u, in) ==
  /\ nextId < MaxUploads
  /\ UNCHANGED <<calls, jobVars, prepVars, authVars, flightVars>>
  /\ IF ~in.store
       THEN /\ res' = Response("uploadResume", u, Null, 500)
            /\ UNCHANGED <<resumes, activeResumeId, files, nextId>>
     ELSE IF ~in.parse
       THEN /\ files' = files \cup {nextId + 1}
            /\ nextId' = nextId + 1
            /\ res' = Response("uploadResume", u, Null, 500)
            /\ UNCHANGED <<resumes, activeResumeId>>
     ELSE IF ~ResumeValid(in)
       THEN /\ files' = files \cup {nextId + 1}
            /\ nextId' = nextId + 1
            /\ resumes' = DeactivateAll(resumes, u)
            /\ res' = Response("uploadResume", u, Null, 500)
            /\ UNCHANGED activeResumeId
     ELSE /\ files' = files \cup {nextId + 1}
          /\ nextId' = nextId + 1
          /\ resumes' = DeactivateAll(resumes, u) \cup {NewResume(nextId + 1, u, analyzeResume(in))}
          /\ activeResumeId' = [activeResumeId EXCEPT ![u] = nextId + 1]
          /\ res' = Response("uploadResume", u, nextId + 1, 200)

FilesAfterDelete_AfterRow(fs, resume, fileOk, rowOk) ==
  IF resume.gridFSFileId /= Null /\ fileOk /\ rowOk THEN fs \ {resume.gridFSFileId} ELSE fs

\* deleteResume, "Delete from GridFS if exists": runs before deleteOne, in a
\* try of its own whose catch only logs
FilesAfterDelete(fs, resume, fileOk, rowOk) ==
  IF resume.gridFSFileId /= Null /\ fileOk THEN fs \ {resume.gridFSFileId} ELSE fs

\* ---- deleteResume, one request run from start to finish.
\* fileOk: whether deleteFromGridFS resolves (its failure is caught and logged);
\* rowOk: whether ParsedResume.deleteOne resolves (its failure reaches the
\* outer catch: 500).
DeleteResumeRun(u, id, fileOk, rowOk) ==
  /\ UNCHANGED <<calls, nextId, jobVars, prepVars, authVars, flightVars>>
  /\ LET found == {r \in resumes : r.id = id /\ r.userId = u} IN
     IF found = {}
       THEN /\ res' = Response("deleteResume", u, id, 404)
            /\ UNCHANGED <<resumes, activeResumeId, files>>
       ELSE LET resume == CHOOSE r \in found : TRUE IN
            /\ files' = FilesAfterDelete(files, resume, fileOk, rowOk)
            /\ IF ~rowOk
                 THEN /\ res' = Response("deleteResume", u, id, 500)
                      /\ UNCHANGED <<resumes, activeResumeId>>
                 ELSE /\ resumes' = {r \in resumes : r.id /= id}
                      /\ activeResumeId' = IF resume.isActive
                                             THEN [activeResumeId EXCEPT ![u] = Null]
                                             ELSE activeResumeId
                      /\ res' = Response("deleteResume", u, id, 200)

\* deleteResume with a database that answers
DeleteResume(u, id, fileOk) == DeleteResumeRun(u, id, fileOk, TRUE)

\* what analyzeResume can return for the experience and education lists
Entries == {<<>>, <<"entry">>}

\* results of analyzeResume on the stored rawText
AnalysisOutputs ==
  [skills : SUBSET Skills, experience : Entries, education : Entries,
   experienceValid : BOOLEAN]

\* uploads that reach ParsedResume.create, with every result of analyzeResume
AnalyzedInputs ==
  [store : {TRUE}, parse : {TRUE}, textEmpty : {FALSE}, experienceValid : BOOLEAN,
   skills : SUBSET Skills, experience : Entries, education : Entries,
   structuring : {"ok"}]

WithAnalysis_StructuredOnly(resume, out) ==
  [resume EXCEPT !.structuredJson = StructuredJson(out)]

\* reanalyzeResume, "Update the resume document"
WithAnalysis(resume, out) ==
  [resume EXCEPT !.structuredJson = StructuredJson(out),
                 !.skills = out.skills,
                 !.experience = out.experience,
                 !.education = out.education]

\* ---- reanalyzeResume, one request run from start to finish; out is what
\* analyzeResume returns for the stored text
ReanalyzeResume(u, id, out) ==
  /\ UNCHANGED <<activeResumeId, files, calls, nextId, jobVars, prepVars, authVars, flightVars>>
  /\ LET found == {r \in resumes : r.id = id /\ r.userId = u} IN
     IF found = {}
       THEN /\ res' = Response("reanalyzeResume", u, id, 404)
            /\ UNCHANGED resumes
       ELSE \E resume \in found :
            IF ~out.experienceValid
              THEN \* save() rejects an entry without its required fields: 500
                   /\ res' = Response("reanalyzeResume", u, id, 500)
                   /\ UNCHANGED resumes
              ELSE /\ resumes' = (resumes \ {resume}) \cup {WithAnalysis(resume, out)}
                   /\ res' = Response("reanalyzeResume", u, id, 200)

\* ---- uploadResume run as separate steps, one per await that touches the
\* database, so that two requests can interleave.
IdleCall ==
  [pc |-> "idle", userId |-> "none", id |-> Null, valid |-> FALSE, skills |-> {},
   experience |-> <<>>, education |-> <<>>, status |-> Null]
Call(pc, u, id, in, status) ==
  [pc |-> pc, userId |-> u, id |-> id, valid |-> ResumeValid(in), skills |-> in.skills,
   experience |-> in.experience, education |-> in.education, status |-> status]

\* steps 1-3: uploadToGridFS, parsePDF, analyzeResume
UpBegin(p, u, in) ==
  /\ calls[p].pc \in {"idle", "done"}
  /\ nextId < MaxConcUploads
  /\ UNCHANGED <<resumes, activeResumeId, jobVars, prepVars, authVars, flightVars>>
  /\ IF ~in.store
       THEN /\ calls' = [calls EXCEPT ![p] = Call("done", u, Null, in, 500)]
            /\ res' = Response("uploadResume", u, Null, 500)
            /\ UNCHANGED <<files, nextId>>
       ELSE /\ files' = files \cup {nextId + 1}
            /\ nextId' = nextId + 1
            /\ IF ~in.parse
                 THEN /\ calls' = [calls EXCEPT ![p] = Call("done", u, nextId + 1, in, 500)]
                      /\ res' = Response("uploadResume", u, Null, 500)
                 ELSE /\ calls' = [calls EXCEPT ![p] = Call("deactivate", u, nextId + 1, in, Null)]
                      /\ UNCHANGED res

\* step 4: ParsedResume.updateMany
UpDeactivate(p) ==
  /\ calls[p].pc = "deactivate"
  /\ resumes' = DeactivateAll(resumes, calls[p].userId)
  /\ calls' = [calls EXCEPT ![p].pc = "create"]
  /\ UNCHANGED <<activeResumeId, files, nextId, res, jobVars, prepVars, authVars, flightVars>>

\* step 5: ParsedResume.create
UpCreate(p) ==
  /\ calls[p].pc = "create"
  /\ UNCHANGED <<activeResumeId, files, nextId, jobVars, prepVars, authVars, flightVars>>
  /\ IF ~calls[p].valid
       THEN /\ calls' = [calls EXCEPT ![p].pc = "done", ![p].status = 500]
            /\ res' = Response("uploadResume", calls[p].userId, Null, 500)
            /\ UNCHANGED resumes
       ELSE /\ resumes' = resumes \cup {NewResume(calls[p].id, calls[p].userId, calls[p])}
            /\ calls' = [calls EXCEPT ![p].pc = "setref"]
            /\ UNCHANGED res

\* step 6: User.findByIdAndUpdate, then the 200 response
UpSetRef(p) ==
  /\ calls[p].pc = "setref"
  /\ activeResumeId' = [activeResumeId EXCEPT ![calls[p].userId] = calls[p].id]
  /\ calls' = [calls EXCEPT ![p].pc = "done", ![p].status = 200]
  /\ res' = Response("uploadResume", calls[p].userId, calls[p].id, 200)
  /\ UNCHANGED <<resumes, files, nextId, jobVars, prepVars, authVars, flightVars>>

\* ------------------------------------------------------------- job domain

\* JavaScript's NaN, kept apart from every score the model draws
NaN == -9999
MathMin(a, b) == IF a = NaN \/ b = NaN THEN NaN ELSE IF a < b THEN a ELSE b
MathMax(a, b) == IF a = NaN \/ b = NaN THEN NaN ELSE IF a > b THEN a ELSE b
Gte(a, b) == a /= NaN /\ a >= b

\* What the scoring collaborator answers for one job: a JSON whose matchScore is
\* a number, is absent, or is a non-numeric string; or the call / JSON.parse throws.
RawOutputs(S) ==
  {[kind |-> "number", n |-> n] : n \in S}
    \cup {[kind |-> k, n |-> 0] : k \in {"missing", "nonNumeric", "throws"}}

\* matchData.matchScore || 0, as Math.min then reads it
ScoreOrZero(raw) ==
  CASE raw.kind = "number" -> raw.n
    [] raw.kind = "missing" -> 0
    [] raw.kind = "nonNumeric" -> NaN

\* matchJob: the matchScore of the JobMatch it returns
matchJob_NoUpperClamp(raw) ==
  IF raw.kind = "throws" THEN 0 ELSE MathMax(0, ScoreOrZero(raw))

matchJob(raw) ==
  IF raw.kind = "throws" THEN 0 ELSE MathMax(0, MathMin(100, ScoreOrZero(raw)))

\* matchAnalysis.overallFit as discoverJobs derives it from the score
OverallFit_StrictThresholds(score) ==
  IF score > 80 THEN "excellent"
  ELSE IF score > 60 THEN "good"
  ELSE IF score > 40 THEN "moderate" ELSE "low"

OverallFit(score) ==
  IF Gte(score, 80) THEN "excellent"
  ELSE IF Gte(score, 60) THEN "good"
  ELSE IF Gte(score, 40) THEN "moderate" ELSE "low"

\* jobMatchSchema.virtual('matchLevel')
MatchLevel(score) ==
  IF Gte(score, 80) THEN "excellent"
  ELSE IF Gte(score, 60) THEN "good"
  ELSE IF Gte(score, 40) THEN "moderate" ELSE "low"

\* A scraped job with the collaborator's answer for it:
\* [description : BOOLEAN (job.description non-empty), llm : raw output]
JobsOver(S) == [description : BOOLEAN, llm : RawOutputs(S)]

\* matchMultipleJobs: every job scored by matchJob, sorted by score, highest first
Scored(job) == [job |-> job, matchScore |-> matchJob(job.llm)]

RECURSIVE InsertDesc(_, _)
InsertDesc(m, sorted) ==
  IF sorted = <<>> THEN <<m>>
  ELSE IF Head(sorted).matchScore /= NaN /\ m.matchScore /= NaN
          /\ Head(sorted).matchScore < m.matchScore
         THEN <<m>> \o sorted
         ELSE <<Head(sorted)>> \o InsertDesc(m, Tail(sorted))

RECURSIVE matchMultipleJobs(_)
matchMultipleJobs(jobs) ==
  IF jobs = <<>> THEN <<>>
  ELSE LET rest == matchMultipleJobs(SubSeq(jobs, 1, Len(jobs) - 1))
       IN InsertDesc(Scored(jobs[Len(jobs)]), rest)

\* matches.slice(0, 20)
TopMatches == 20
Slice(s, n) == SubSeq(s, 1, IF Len(s) < n THEN Len(s) ELSE n)

\* jobMatchSchema validation run by JobMatch.insertMany: matchScore is a number
\* in 0..100, description is required (an empty string is rejected)
JobMatchValid(doc) ==
  /\ doc.matchScore /= NaN
  /\ doc.matchScore >= 0
  /\ doc.matchScore <= 100
  /\ doc.hasDescription

\* one element of matchesToSave
MatchToSave(id, u, resumeId, match) ==
  [id |-> id, userId |-> u, resumeId |-> resumeId,
   hasDescription |-> match.job.description,
   matchScore |-> match.matchScore,
   overallFit |-> OverallFit(match.matchScore),
   applied |-> FALSE, appliedDate |-> Null, applicationStatus |-> "not_applied",
   isSaved |-> FALSE, isHidden |-> FALSE]

\* ---- discoverJobs, one request run from start to finish.
\* jobs: what scrapeJobs returns, each with the scoring collaborator's answer.
DiscoverJobs(u, jobs, maxStored) ==
  /\ UNCHANGED <<resumeVars, now, prepVars, authVars, flightVars>>
  /\ LET active == ActiveOf(resumes, u) IN
     IF active = {}
       THEN /\ res' = Response("discoverJobs", u, Null, 404)
            /\ rejected' = {}
            /\ UNCHANGED <<jobMatches, nextMatchId, analytics, scoringLog>>
       ELSE \E resumeData \in active :
         IF resumeData.skills = {}
           THEN /\ res' = Response("discoverJobs", u, Null, 400)
                /\ rejected' = {}
                /\ UNCHANGED <<jobMatches, nextMatchId, analytics, scoringLog>>
         ELSE IF Len(jobs) = 0
           THEN /\ res' = Response("discoverJobs", u, Null, 200)
                /\ rejected' = {}
                /\ UNCHANGED <<jobMatches, nextMatchId, analytics, scoringLog>>
         ELSE
           LET matches == matchMultipleJobs(jobs)
               top == Slice(matches, TopMatches)
               docs == [i \in 1..Len(top) |->
                          MatchToSave(nextMatchId + i, u, resumeData.id, top[i])]
           IN /\ nextMatchId + Len(top) <= maxStored
              /\ IF \E i \in 1..Len(docs) : ~JobMatchValid(docs[i])
                   THEN /\ res' = Response("discoverJobs", u, Null, 500)
                        /\ rejected' = {top[i].job : i \in 1..Len(top)}
                        /\ UNCHANGED <<jobMatches, nextMatchId, analytics, scoringLog>>
                   ELSE /\ jobMatches' = jobMatches \cup {docs[i] : i \in 1..Len(docs)}
                        /\ nextMatchId' = nextMatchId + Len(docs)
                        /\ scoringLog' = scoringLog \o [i \in 1..Len(top) |-> top[i].job.llm]
                        /\ rejected' = {}
                        /\ analytics' = [analytics EXCEPT ![u].totalJobsDiscovered = @ + Len(matches)]
                        /\ res' = Response("discoverJobs", u, Null, 200)

\* the update document of markAsApplied's findOneAndUpdate
ApplyUpdate(m, t) ==
  [m EXCEPT !.applied = TRUE, !.appliedDate = t, !.applicationStatus = "applied"]

\* the $inc of markAsApplied's User.findByIdAndUpdate, whatever the row was
\* before the update
AppliedIncrement(before) == 1

FindMatch_AnyOwner(u, id) == {m \in jobMatches : m.id = id}

\* the filter { _id: id, userId } of the job handlers
FindMatch(u, id) == {m \in jobMatches : m.id = id /\ m.userId = u}

\* ---- markAsApplied, one request run from start to finish
MarkAsApplied(u, id) ==
  /\ UNCHANGED <<resumeVars, nextMatchId, scoringLog, rejected, now, prepVars, authVars, flightVars>>
  /\ LET found == FindMatch(u, id) IN
     IF found = {}
       THEN /\ res' = Response("markAsApplied", u, id, 404)
            /\ UNCHANGED <<jobMatches, analytics>>
       ELSE \E m \in found :
            /\ analytics[u].totalJobsApplied < MaxApplyCalls
            /\ jobMatches' = (jobMatches \ {m}) \cup {ApplyUpdate(m, now)}
            /\ analytics' = [analytics EXCEPT ![u].totalJobsApplied = @ + AppliedIncrement(m)]
            /\ res' = Response("markAsApplied", u, id, 200)

\* validStatuses of updateApplicationStatus
ValidStatuses == {"not_applied", "applied", "interviewing", "offered", "rejected", "withdrawn"}

\* ---- updateApplicationStatus, one request run from start to finish
UpdateApplicationStatus(u, id, status) ==
  /\ UNCHANGED <<resumeVars, nextMatchId, analytics, scoringLog, rejected, now, prepVars, authVars, flightVars>>
  /\ IF status \notin ValidStatuses
       THEN /\ res' = Response("updateApplicationStatus", u, id, 400)
            /\ UNCHANGED jobMatches
       ELSE LET found == FindMatch(u, id) IN
            IF found = {}
              THEN /\ res' = Response("updateApplicationStatus", u, id, 404)
                   /\ UNCHANGED jobMatches
              ELSE \E m \in found :
                   /\ jobMatches' = (jobMatches \ {m}) \cup {[m EXCEPT !.applicationStatus = status]}
                   /\ res' = Response("updateApplicationStatus", u, id, 200)

\* jobMatchSchema.pre('save') on a document loaded as `loaded` and changed to `doc`
JobPreSave(loaded, doc, t) ==
  IF doc.applied /= loaded.applied /\ doc.applied /\ doc.appliedDate = Null
    THEN [doc EXCEPT !.appliedDate = t, !.applicationStatus = "applied"]
    ELSE doc

\* ---- toggleSaveJob, one request run from start to finish
ToggleSaveJob(u, id) ==
  /\ UNCHANGED <<resumeVars, nextMatchId, analytics, scoringLog, rejected, now, prepVars, authVars, flightVars>>
  /\ LET found == FindMatch(u, id) IN
     IF found = {}
       THEN /\ res' = Response("toggleSaveJob", u, id, 404)
            /\ UNCHANGED jobMatches
       ELSE \E m \in found :
            /\ jobMatches' = (jobMatches \ {m})
                                \cup {JobPreSave(m, [m EXCEPT !.isSaved = ~m.isSaved], now)}
            /\ res' = Response("toggleSaveJob", u, id, 200)

\* a request that holds no document
NoLoad == [op |-> "none", user |-> "none", doc |-> [id |-> Null], arg |-> Null]

\* document.save() of a loaded copy changed to doc: an update of the stored
\* document `stored` that $sets the paths whose value differs from the loaded one
SaveModified(stored, copy, doc) ==
  [f \in DOMAIN stored |-> IF doc[f] /= copy[f] THEN doc[f] ELSE stored[f]]

\* ---- toggleSaveJob run as two steps, one per await, so that two requests
\* can interleave. Step 1: JobMatch.findOne({_id: id, userId})
TgFind(p, u, id) ==
  /\ inflight[p].op \in {"none", "done"}
  /\ UNCHANGED <<resumeVars, jobVars, prepVars, authVars>>
  /\ LET found == FindMatch(u, id) IN
     IF found = {}
       THEN /\ res' = Response("toggleSaveJob", u, id, 404)
            /\ UNCHANGED inflight
       ELSE \E m \in found :
            /\ inflight' = [inflight EXCEPT ![p] = [op |-> "toggleSaveJob", user |-> u, doc |-> m, arg |-> Null]]
            /\ UNCHANGED res

\* step 2: match.isSaved = !match.isSaved; await match.save(); 200
TgSave(p) ==
  /\ inflight[p].op = "toggleSaveJob"
  /\ UNCHANGED <<resumeVars, nextMatchId, analytics, scoringLog, rejected, now, prepVars, authVars>>
  /\ LET copy == inflight[p].doc
         doc == JobPreSave(copy, [copy EXCEPT !.isSaved = ~copy.isSaved], now) IN
     \E stored \in {m \in jobMatches : m.id = copy.id} :
       /\ jobMatches' = (jobMatches \ {stored}) \cup {SaveModified(stored, copy, doc)}
       /\ inflight' = [inflight EXCEPT ![p].op = "done"]
       /\ res' = Response("toggleSaveJob", inflight[p].user, copy.id, 200)

\* ---- hideJob, one request run from start to finish
HideJob(u, id) ==
  /\ UNCHANGED <<resumeVars, nextMatchId, analytics, scoringLog, rejected, now, prepVars, authVars, flightVars>>
  /\ LET found == FindMatch(u, id) IN
     IF found = {}
       THEN /\ res' = Response("hideJob", u, id, 404)
            /\ UNCHANGED jobMatches
       ELSE \E m \in found :
            /\ jobMatches' = (jobMatches \ {m}) \cup {[m EXCEPT !.isHidden = TRUE]}
            /\ res' = Response("hideJob", u, id, 200)

\* ------------------------------------------------------- interview domain
\* a question as generateInterview stores it
NewQuestion ==
  [practiced |-> FALSE, practicedCount |-> 0, confidenceLevel |-> "none", userNotes |-> "none"]

\* request bodies of updateQuestionProgress; "undefined" is a field left out
ProgressBodies ==
  [practiced : {"undefined", "true", "false"},
   confidenceLevel : {"undefined", "high"},
   userNotes : {"undefined", "note"}]

\* bodies that only set or clear the practiced flag
PracticeBodies ==
  {b \in ProgressBodies : b.confidenceLevel = "undefined" /\ b.userNotes = "undefined"}

\* what the question-generation collaborator can do: throw, return items
\* without a category, return items without an answer, or return n questions
Generations ==
  {[kind |-> k, n |-> 0] : k \in {"throws", "malformed", "invalid"}}
    \cup {[kind |-> "ok", n |-> n] : n \in 0..MaxQuestions}

\* Math.round((c / n) * 100) for 0 <= c <= n, n > 0
RoundPercent(c, n) == (200 * c + n) \div (2 * n)

\* questions.filter(q => q.practiced).length
CompletedCount(qs) == Cardinality({i \in DOMAIN qs : qs[i].practiced})

\* the document InterviewPrep.create({..., status: 'generating'}) inserts
NewPrep(id, u, companyName) ==
  [id |-> id, userId |-> u, company |-> companyName, status |-> "generating",
   questionsJson |-> <<>>,
   questionStats |-> [total |-> 0],
   progress |-> [questionsCompleted |-> 0, totalQuestions |-> 0, percentComplete |-> 0,
                 totalPracticeTime |-> 0, averageConfidence |-> 0],
   practiceSessions |-> <<>>,
   completedAt |-> Null]

\* updateQuestionProgress, "Update question"
UpdateQuestion(q, body) ==
  LET q1 == IF body.practiced /= "undefined"
              THEN [q EXCEPT !.practiced = (body.practiced = "true"),
                             !.practicedCount = IF body.practiced = "true" THEN @ + 1 ELSE @]
              ELSE q
      q2 == IF body.confidenceLevel /= "undefined"
              THEN [q1 EXCEPT !.confidenceLevel = body.confidenceLevel]
              ELSE q1
  IN IF body.userNotes /= "undefined" THEN [q2 EXCEPT !.userNotes = body.userNotes] ELSE q2

\* updateQuestionProgress, "Update progress"
UpdateProgress(doc) ==
  LET c == CompletedCount(doc.questionsJson) IN
  [doc EXCEPT !.progress.questionsCompleted = c,
              !.progress.percentComplete = RoundPercent(c, Len(doc.questionsJson))]

UpdateStatus_NoStamp(doc, t) ==
  IF doc.progress.percentComplete = 100
    THEN [doc EXCEPT !.status = "completed"]
    ELSE IF doc.progress.percentComplete > 0 /\ doc.status = "generated"
           THEN [doc EXCEPT !.status = "in_progress"]
           ELSE doc

\* updateQuestionProgress, "Update status if all questions completed"
UpdateStatus(doc, t) ==
  IF doc.progress.percentComplete = 100
    THEN [doc EXCEPT !.status = "completed", !.completedAt = t]
    ELSE IF doc.progress.percentComplete > 0 /\ doc.status = "generated"
           THEN [doc EXCEPT !.status = "in_progress"]
           ELSE doc

PreSaveStats_CountsEverPracticed(doc) ==
  LET n == Len(doc.questionsJson)
      c == Cardinality({i \in DOMAIN doc.questionsJson : doc.questionsJson[i].practicedCount > 0})
  IN [doc EXCEPT !.questionStats.total = n,
                 !.progress.questionsCompleted = c,
                 !.progress.totalQuestions = n,
                 !.progress.percentComplete = IF n > 0 THEN RoundPercent(c, n) ELSE 0]

\* pre('save') hook, the block run when questionsJson is modified
PreSaveStats(doc) ==
  LET n == Len(doc.questionsJson)
      c == CompletedCount(doc.questionsJson)
  IN [doc EXCEPT !.questionStats.total = n,
                 !.progress.questionsCompleted = c,
                 !.progress.totalQuestions = n,
                 !.progress.percentComplete = IF n > 0 THEN RoundPercent(c, n) ELSE 0]

\* pre('save') hook, "Update status based on progress"
PreSaveStatus(doc, t) ==
  IF doc.progress.percentComplete = 100 /\ doc.status /= "completed"
    THEN [doc EXCEPT !.status = "completed", !.completedAt = t]
    ELSE IF doc.progress.percentComplete > 0 /\ doc.status = "generated"
           THEN [doc EXCEPT !.status = "in_progress"]
           ELSE doc

\* pre('save') hook on a document loaded as `loaded` and changed to `doc`;
\* isModified('questionsJson') is true when a question differs from what was loaded
PreSave(loaded, doc, t) ==
  PreSaveStatus(IF doc.questionsJson /= loaded.questionsJson THEN PreSaveStats(doc) ELSE doc, t)

\* generateInterview, "Update the document with generated data", before save()
Generated(doc, n) ==
  [doc EXCEPT !.questionsJson = [i \in 1..n |-> NewQuestion],
              !.status = "generated",
              !.questionStats = [total |-> n],
              !.progress = [questionsCompleted |-> 0, totalQuestions |-> n, percentComplete |-> 0,
                            totalPracticeTime |-> 0, averageConfidence |-> 0]]

RevertToDraft_LeaveAsIs(doc) == doc

\* generateInterview, catch of the collaborator call: prepDoc.status = 'draft'
RevertToDraft(doc) == [doc EXCEPT !.status = "draft"]

\* ---- generateInterview, one request run from start to finish; auth is the
\* user of the bearer token ("none" without one), bodyUser the userId field
\* of the body ("none" when left out), companyName the body's companyName
GenerateInterviewFor(auth, bodyUser, companyName, gen) ==
  /\ UNCHANGED <<resumeVars, authVars, flightVars, jobVars>>
  /\ LET userId == IF bodyUser /= "none" THEN bodyUser ELSE auth IN
     IF userId = "none"
       THEN /\ res' = Response("generateInterview", auth, Null, 401)
            /\ UNCHANGED prepVars
       ELSE /\ nextPrepId < MaxPreps
            /\ nextPrepId' = nextPrepId + 1
            /\ LET created == NewPrep(nextPrepId + 1, userId, companyName) IN
               CASE gen.kind = "throws" ->
                      \* collaborator threw: status = 'draft', save, 500
                      /\ preps' = preps \cup {PreSave(created, RevertToDraft(created), now)}
                      /\ res' = Response("generateInterview", userId, created.id, 500)
                 [] gen.kind = "malformed" ->
                      \* q.category.toLowerCase() throws in the transformation: 500
                      /\ preps' = preps \cup {created}
                      /\ res' = Response("generateInterview", userId, created.id, 500)
                 [] gen.kind = "invalid" ->
                      \* save() rejects a question without modelAnswer: 500
                      /\ preps' = preps \cup {created}
                      /\ res' = Response("generateInterview", userId, created.id, 500)
                 [] gen.kind = "ok" ->
                      /\ preps' = preps \cup {PreSave(created, Generated(created, gen.n), now)}
                      /\ res' = Response("generateInterview", userId, created.id, 200)

\* generateInterview for the company the other endpoints do not look at
GenerateInterview(auth, bodyUser, gen) == GenerateInterviewFor(auth, bodyUser, "Acme", gen)

\* ---- updateQuestionProgress, one request run from start to finish; a
\* question's _id is its position in questionsJson
UpdateQuestionProgress(u, id, questionId, body) ==
  /\ UNCHANGED <<resumeVars, authVars, flightVars, jobVars, nextPrepId>>
  /\ LET found == {p \in preps : p.id = id /\ p.userId = u} IN
     IF found = {}
       THEN /\ res' = Response("updateQuestionProgress", u, id, 404)
            /\ UNCHANGED preps
       ELSE \E prep \in found :
            IF questionId \notin DOMAIN prep.questionsJson
              THEN /\ res' = Response("updateQuestionProgress", u, id, 404)
                   /\ UNCHANGED preps
              ELSE /\ body.practiced = "true" =>
                        prep.questionsJson[questionId].practicedCount < MaxPracticed
                   /\ LET changed == [prep EXCEPT !.questionsJson[questionId] = UpdateQuestion(@, body)]
                          saved == PreSave(prep, UpdateStatus(UpdateProgress(changed), now), now)
                      IN preps' = (preps \ {prep}) \cup {saved}
                   /\ res' = Response("updateQuestionProgress", u, id, 200)

\* a body field that was left out of the request (JavaScript undefined)
Undefined == -1

\* request bodies of recordPracticeSession; averageConfidence above 100 is
\* what practiceSessionSchema refuses
ConfidenceInputs == {Undefined, 1, 2, 101}

SessionBodies ==
  [questionsAttempted : 0..1, duration : 0..1, averageConfidence : ConfidenceInputs]

\* averageConfidence || 0
ConfidenceOrZero(c) == IF c = Undefined THEN 0 ELSE c

\* the sub-document recordPracticeSession pushes
NewSession(body) ==
  [questionsAttempted |-> body.questionsAttempted, duration |-> body.duration,
   averageConfidence |-> ConfidenceOrZero(body.averageConfidence)]

\* practiceSessionSchema: averageConfidence min 0, max 100
SessionValid(session) == session.averageConfidence >= 0 /\ session.averageConfidence <= 100

RECURSIVE TotalConfidence(_)
\* practiceSessions.reduce((sum, s) => sum + (s.averageConfidence || 0), 0)
TotalConfidence(sessions) ==
  IF sessions = <<>> THEN 0
  ELSE TotalConfidence(SubSeq(sessions, 1, Len(sessions) - 1))
         + sessions[Len(sessions)].averageConfidence

\* Math.round(total / n) for total >= 0, n > 0
RoundMean(total, n) == (2 * total + n) \div (2 * n)

AddSession_AverageBeforePush(doc, body) ==
  LET sessions == Append(doc.practiceSessions, NewSession(body))
      old == doc.practiceSessions
  IN [doc EXCEPT !.practiceSessions = sessions,
                 !.progress.totalPracticeTime = @ + body.duration,
                 !.progress.averageConfidence =
                    IF old = <<>> THEN 0 ELSE RoundMean(TotalConfidence(old), Len(old))]

\* recordPracticeSession, "Add practice session" to "Calculate average confidence"
AddSession(doc, body) ==
  LET sessions == Append(doc.practiceSessions, NewSession(body)) IN
  [doc EXCEPT !.practiceSessions = sessions,
              !.progress.totalPracticeTime = @ + body.duration,
              !.progress.averageConfidence = RoundMean(TotalConfidence(sessions), Len(sessions))]

\* ---- recordPracticeSession, one request run from start to finish
RecordPracticeSession(u, id, body) ==
  /\ UNCHANGED <<resumeVars, authVars, flightVars, jobVars, nextPrepId>>
  /\ IF body.questionsAttempted = 0 \/ body.duration = 0
       THEN /\ res' = Response("recordPracticeSession", u, id, 400)
            /\ UNCHANGED preps
       ELSE LET found == {p \in preps : p.id = id /\ p.userId = u} IN
            IF found = {}
              THEN /\ res' = Response("recordPracticeSession", u, id, 404)
                   /\ UNCHANGED preps
              ELSE \E prep \in found :
                   /\ Len(prep.practiceSessions) < MaxSessions
                   /\ IF SessionValid(NewSession(body))
                        THEN /\ preps' = (preps \ {prep})
                                            \cup {PreSave(prep, AddSession(prep, body), now)}
                             /\ res' = Response("recordPracticeSession", u, id, 200)
                        ELSE \* save() rejects the session: 500, nothing stored
                             /\ res' = Response("recordPracticeSession", u, id, 500)
                             /\ UNCHANGED preps

\* ---- deleteInterviewPrep, one request run from start to finish
DeleteInterviewPrep(u, id) ==
  /\ UNCHANGED <<resumeVars, authVars, flightVars, jobVars, nextPrepId>>
  /\ IF \E p \in preps : p.id = id /\ p.userId = u
       THEN /\ preps' = {p \in preps : ~(p.id = id /\ p.userId = u)}
            /\ res' = Response("deleteInterviewPrep", u, id, 200)
       ELSE /\ res' = Response("deleteInterviewPrep", u, id, 404)
            /\ UNCHANGED preps

\* ------------------------------------------------------------ auth domain
\* an email as typed: a mailbox, written in upper or lower case, with or
\* without surrounding blanks
Emails == [box : {"a", "b", "c"}, upper : BOOLEAN, padded : BOOLEAN]

\* email.toLowerCase().trim()
Normalize(email) == [email EXCEPT !.upper = FALSE, !.padded = FALSE]

UniqueIndexHit_NoIndex(rows, email) == FALSE

\* the unique index on users.email: an insert of `email` hits an existing key
UniqueIndexHit(rows, email) == \E r \in rows : r.email = email

IdleReg == [pc |-> "idle", email |-> Normalize(CHOOSE e \in Emails : TRUE), status |-> Null, id |-> Null]

\* ---- register, up to and including User.findOne
RegFind(p, email) ==
  /\ regCalls[p].pc \in {"idle", "done"}
  /\ nextUserId < MaxUsers
  /\ UNCHANGED <<resumeVars, res, jobVars, prepVars, flightVars, accounts, nextUserId>>
  /\ IF \E r \in accounts : r.email = Normalize(email)
       THEN regCalls' = [regCalls EXCEPT ![p] =
                           [pc |-> "done", email |-> Normalize(email), status |-> 400, id |-> Null]]
       ELSE regCalls' = [regCalls EXCEPT ![p] =
                           [pc |-> "create", email |-> Normalize(email), status |-> Null, id |-> Null]]

\* ---- register, User.create and the response; a duplicate key error
\* (code 11000) is answered 400
RegCreate(p) ==
  /\ regCalls[p].pc = "create"
  /\ UNCHANGED <<resumeVars, res, jobVars, prepVars, flightVars>>
  /\ IF UniqueIndexHit(accounts, regCalls[p].email)
       THEN /\ regCalls' = [regCalls EXCEPT ![p].pc = "done", ![p].status = 400]
            /\ UNCHANGED <<accounts, nextUserId>>
       ELSE /\ nextUserId' = nextUserId + 1
            /\ accounts' = accounts \cup {[id |-> nextUserId + 1, email |-> regCalls[p].email]}
            /\ regCalls' = [regCalls EXCEPT ![p].pc = "done", ![p].status = 201,
                                            ![p].id = nextUserId + 1]

\* ---- time passing between two requests
Tick ==
  /\ now < MaxTime
  /\ now' = now + 1
  /\ UNCHANGED <<resumeVars, res, jobMatches, nextMatchId, analytics, scoringLog, rejected, prepVars, authVars, flightVars>>

Init ==
  /\ resumes = {}
  /\ activeResumeId = [u \in Users |-> Null]
  /\ files = {}
  /\ nextId = 0
  /\ res = NoResponse
  /\ calls = [p \in Procs |-> IdleCall]
  /\ jobMatches = {}
  /\ nextMatchId = 0
  /\ analytics = [u \in Users |-> [totalJobsDiscovered |-> 0, totalJobsApplied |-> 0]]
  /\ scoringLog = <<>>
  /\ rejected = {}
  /\ now = 1
  /\ preps = {}
  /\ nextPrepId = 0
  /\ inflight = [p \in Procs |-> NoLoad]
  /\ accounts = {}
  /\ nextUserId = 0
  /\ regCalls = [p \in Procs |-> IdleReg]

NextResume ==
  \/ \E u \in Users, in \in UploadInputs : UploadResume(u, in)
  \/ \E u \in Users, id \in 1..MaxUploads, fileOk \in BOOLEAN : DeleteResume(u, id, fileOk)

SpecResume == Init /\ [][NextResume]_vars

\* only uploads that run to a 200 response, one after the other
NextUpload ==
  \E u \in Users, in \in OkInputs : UploadResume(u, in)

SpecUpload == Init /\ [][NextUpload]_vars

\* uploadResume requests interleaved at their database writes
NextUploadConc ==
  \/ \E p \in Procs, u \in Users, in \in UploadInputs : UpBegin(p, u, in)
  \/ \E p \in Procs : UpDeactivate(p)
  \/ \E p \in Procs : UpCreate(p)
  \/ \E p \in Procs : UpSetRef(p)

SpecUploadConc == Init /\ [][NextUploadConc]_vars

\* a user's first upload, the one the job scenarios start from
FirstUpload(u, in) == ResumesOf(resumes, u) = {} /\ UploadResume(u, in)

\* discovery of one job into an empty collection, for every score the
\* collaborator can answer from just below 0 to just above 100
FullScores == (0 - ScoreMargin)..(100 + ScoreMargin)

FitJobs == {[description |-> TRUE, llm |-> [kind |-> "number", n |-> n]] : n \in FullScores}

DiscoverOne(u, job) == jobMatches = {} /\ DiscoverJobs(u, <<job>>, MaxMatches)

NextFit ==
  \/ \E u \in Users, in \in OkInputs : FirstUpload(u, in)
  \/ \E u \in Users, job \in FitJobs : DiscoverOne(u, job)

SpecFit == Init /\ [][NextFit]_vars

\* discovery of batches of jobs whose answers sit at and outside the score range
EdgeScores == {-5, 50, 150}
EdgeJobs == {j \in JobsOver(EdgeScores) : j.description}
JobBatches == UNION {[1..n -> EdgeJobs] : n \in 0..MaxJobs}

NextDiscover ==
  \/ \E u \in Users, in \in OkInputs : FirstUpload(u, in)
  \/ \E u \in Users, jobs \in JobBatches : DiscoverJobs(u, jobs, MaxMatches)

SpecDiscover == Init /\ [][NextDiscover]_vars

\* one discovery of a batch into an empty collection, then apply requests
ApplyJobs == {[description |-> TRUE, llm |-> [kind |-> "number", n |-> 50]]}
ApplyBatches == UNION {[1..n -> ApplyJobs] : n \in 1..MaxJobs}

DiscoverBatch(u, jobs) == jobMatches = {} /\ DiscoverJobs(u, jobs, MaxJobs)

NextApply ==
  \/ \E u \in Users, in \in OkInputs : FirstUpload(u, in)
  \/ \E u \in Users, jobs \in ApplyBatches : DiscoverBatch(u, jobs)
  \/ \E u \in Users, id \in 1..MaxJobs : MarkAsApplied(u, id)
  \/ Tick

SpecApply == Init /\ [][NextApply]_vars

\* one interview prep at a time: generated, practiced question by question
\* and deleted
Callers == Users \cup {"none"}

GenerateOne(auth, bodyUser, gen) == preps = {} /\ GenerateInterview(auth, bodyUser, gen)

NextInterview ==
  \/ \E auth \in Callers, bodyUser \in Callers, gen \in Generations :
       GenerateOne(auth, bodyUser, gen)
  \/ \E u \in Users, id \in 1..MaxPreps, questionId \in 1..MaxQuestions, body \in PracticeBodies :
       UpdateQuestionProgress(u, id, questionId, body)
  \/ \E u \in Users, id \in 1..MaxPreps : DeleteInterviewPrep(u, id)
  \/ Tick

SpecInterview == Init /\ [][NextInterview]_vars

\* a prep generated with at least one question by its authenticated owner,
\* then practiced question by question and in recorded sessions
ReadyBanks == {[kind |-> "ok", n |-> n] : n \in 1..MaxQuestions}

GenerateReady(u, gen) == preps = {} /\ GenerateInterview(u, "none", gen)

NextPractice ==
  \/ \E u \in Users, gen \in ReadyBanks : GenerateReady(u, gen)
  \/ \E u \in Users, id \in 1..MaxPreps, questionId \in 1..MaxQuestions, body \in PracticeBodies :
       UpdateQuestionProgress(u, id, questionId, body)
  \/ \E u \in Users, id \in 1..MaxPreps, body \in SessionBodies :
       RecordPracticeSession(u, id, body)

SpecPractice == Init /\ [][NextPractice]_vars

\* a generated prep on which only practice sessions are recorded
NextSessions ==
  \/ \E u \in Users, gen \in ReadyBanks : GenerateReady(u, gen)
  \/ \E u \in Users, id \in 1..MaxPreps, body \in SessionBodies :
       RecordPracticeSession(u, id, body)

SpecSessions == Init /\ [][NextSessions]_vars

\* a generated prep practiced to completion and touched again later: its
\* questions re-marked, their notes edited, sessions recorded, as time passes
LaterBodies ==
  {b \in ProgressBodies :
     b.confidenceLevel = "undefined" /\ (b.userNotes = "undefined" \/ b.practiced = "undefined")}

OneSession == {b \in SessionBodies : b.questionsAttempted = 1 /\ b.duration = 1 /\ b.averageConfidence = 1}

NextLater ==
  \/ \E u \in Users, gen \in ReadyBanks : GenerateReady(u, gen)
  \/ \E u \in Users, id \in 1..MaxPreps, questionId \in 1..MaxQuestions, body \in LaterBodies :
       UpdateQuestionProgress(u, id, questionId, body)
  \/ \E u \in Users, id \in 1..MaxPreps, body \in OneSession :
       RecordPracticeSession(u, id, body)
  \/ Tick

SpecLater == Init /\ [][NextLater]_vars

\* every handler that changes an existing record, called by both users on
\* the records of one of them: either a resume and the job discovered from
\* it, or an interview prep
Owner == "u1"

StageUpload(u, in) == nextId = 0 /\ nextPrepId = 0 /\ FirstUpload(u, in)

StagePrep(u, gen) == nextId = 0 /\ GenerateReady(u, gen)

SkilledInputs == {in \in OkInputs : in.skills /= {}}

PlainOutputs ==
  {out \in AnalysisOutputs : out.skills /= {} /\ out.experience = <<>> /\ out.education = <<>>}

OneQuestion == {gen \in ReadyBanks : gen.n = 1}

SomeStatuses == {"interviewing", "bogus"}

\* the id of the scenario's resume, job and prep, the first of each collection
FirstIds == {1}

TwoSessions ==
  {b \in SessionBodies : b.questionsAttempted = 1 /\ b.averageConfidence = 1}

NextOwnership ==
  \/ \E in \in SkilledInputs : StageUpload(Owner, in)
  \/ \E job \in ApplyJobs : DiscoverOne(Owner, job)
  \/ \E gen \in OneQuestion : StagePrep(Owner, gen)
  \/ \E u \in Users, id \in FirstIds, fileOk \in BOOLEAN : DeleteResume(u, id, fileOk)
  \/ \E u \in Users, id \in FirstIds, out \in PlainOutputs : ReanalyzeResume(u, id, out)
  \/ \E u \in Users, id \in FirstIds : MarkAsApplied(u, id)
  \/ \E u \in Users, id \in FirstIds, status \in SomeStatuses :
       UpdateApplicationStatus(u, id, status)
  \/ \E u \in Users, id \in FirstIds : ToggleSaveJob(u, id)
  \/ \E u \in Users, id \in FirstIds : HideJob(u, id)
  \/ \E u \in Users, id \in FirstIds, questionId \in FirstIds, body \in PracticeBodies :
       UpdateQuestionProgress(u, id, questionId, body)
  \/ \E u \in Users, id \in FirstIds, body \in TwoSessions :
       RecordPracticeSession(u, id, body)
  \/ \E u \in Users, id \in FirstIds : DeleteInterviewPrep(u, id)

SpecOwnership == Init /\ [][NextOwnership]_vars

\* register requests, one after the other or interleaved between their
\* findOne and their create
NextRegister ==
  \/ \E p \in Procs, email \in Emails : RegFind(p, email)
  \/ \E p \in Procs : RegCreate(p)

SpecRegister == Init /\ [][NextRegister]_vars

\* a first upload per user with any analysis result, then re-analyses
NextReanalyze ==
  \/ \E u \in Users, in \in AnalyzedInputs : FirstUpload(u, in)
  \/ \E u \in Users, id \in 1..MaxUploads, out \in AnalysisOutputs : ReanalyzeResume(u, id, out)

SpecReanalyze == Init /\ [][NextReanalyze]_vars

\* one discovered job whose application status is moved by
\* updateApplicationStatus and markAsApplied
StatusInputs == ValidStatuses \cup {"bogus"}

NextStatus ==
  \/ \E u \in Users, in \in OkInputs : FirstUpload(u, in)
  \/ \E u \in Users, job \in ApplyJobs : DiscoverOne(u, job)
  \/ \E u \in Users, id \in 1..MaxJobs, status \in StatusInputs :
       UpdateApplicationStatus(u, id, status)
  \/ \E u \in Users, id \in 1..MaxJobs : MarkAsApplied(u, id)

SpecStatus == Init /\ [][NextStatus]_vars

\* one discovery into an empty collection of up to a few more jobs than
\* discoverJobs stores
LongBatches ==
  UNION {[1..n -> ApplyJobs] : n \in 0..(TopMatches + MaxExtraJobs)}

DiscoverLong(u, jobs) == jobMatches = {} /\ DiscoverJobs(u, jobs, TopMatches)

NextDiscoverLong ==
  \/ \E u \in Users, in \in OkInputs : FirstUpload(u, in)
  \/ \E u \in Users, jobs \in LongBatches : DiscoverLong(u, jobs)

SpecDiscoverLong == Init /\ [][NextDiscoverLong]_vars

\* ------------------------------------------------------------ properties

\* the last response was `status`, sent to user u by handler op
Answered(op, u, status) == res.op = op /\ res.user = u /\ res.status = status

\* C1: after any sequence of non-overlapping successful uploadResume calls a user
\* who has uploaded has exactly one active resume, and a user who never uploaded
\* has none.
C1_OneActiveAfterUploads ==
  \A u \in Users :
    Cardinality(ActiveOf(resumes, u)) = IF ResumesOf(resumes, u) = {} THEN 0 ELSE 1

C1_Witness ==
  \E u \in Users :
    /\ Cardinality(ResumesOf(resumes, u)) >= 3
    /\ Cardinality(ActiveOf(resumes, u)) = 1
    /\ Answered("uploadResume", u, 200)

\* C2: once two concurrent uploadResume calls of the same user have both completed
\* with 200, exactly one resume of that user is active.
C2_OneActiveAfterConcurrentUploads ==
  \A u \in Users :
    (\A p \in Procs : calls[p].pc = "done" /\ calls[p].userId = u /\ calls[p].status = 200)
      => Cardinality(ActiveOf(resumes, u)) = 1

\* C3 (as claimed): after any sequence of non-overlapping uploadResume and
\* deleteResume calls every user who still has a resume has exactly one active.
C3_ExactlyOneActiveWhileRecordsExist ==
  \A u \in Users :
    ResumesOf(resumes, u) /= {} => Cardinality(ActiveOf(resumes, u)) = 1

\* C3 (amended): after any sequence of non-overlapping uploadResume and
\* deleteResume calls no user has more than one active resume, and right after a
\* successful uploadResume the uploading user has exactly one.
C3_AtMostOneActive ==
  /\ \A u \in Users : Cardinality(ActiveOf(resumes, u)) <= 1
  /\ \A u \in Users :
       Answered("uploadResume", u, 200) => Cardinality(ActiveOf(resumes, u)) = 1

C3_Witness ==
  \E u \in Users :
    /\ Answered("deleteResume", u, 200)
    /\ ResumesOf(resumes, u) /= {}
    /\ ActiveOf(resumes, u) = {}

\* the score the claim expects for a collaborator answer
Expected(raw) ==
  IF raw.kind = "number"
    THEN (IF raw.n > 100 THEN 100 ELSE IF raw.n < 0 THEN 0 ELSE raw.n)
    ELSE 0

\* C5: every JobMatch that discoverJobs stored has overallFit excellent iff
\* matchScore >= 80, good iff 60 <= matchScore < 80, moderate iff
\* 40 <= matchScore < 60 and low iff matchScore < 40.
C5_OverallFitThresholds ==
  \A m \in jobMatches :
    /\ m.overallFit = "excellent" <=> m.matchScore >= 80
    /\ m.overallFit = "good" <=> (60 <= m.matchScore /\ m.matchScore < 80)
    /\ m.overallFit = "moderate" <=> (40 <= m.matchScore /\ m.matchScore < 60)
    /\ m.overallFit = "low" <=> m.matchScore < 40
    /\ m.overallFit \in {"excellent", "good", "moderate", "low"}

C5_Witness ==
  \E m \in jobMatches : m.matchScore = 80 /\ m.overallFit = "excellent"

\* C6: every stored JobMatch has 0 <= matchScore <= 100: a numeric answer is
\* stored clamped to the range, a missing score or a failed scoring call as 0,
\* and only a batch holding a non-numeric score or an empty description is
\* refused by the schema.
C6_ScoreInRange ==
  /\ \A m \in jobMatches :
       /\ m.matchScore \in 0..100
       /\ scoringLog[m.id].kind /= "nonNumeric"
       /\ m.matchScore = Expected(scoringLog[m.id])
  /\ rejected /= {} =>
       \E job \in rejected : job.llm.kind = "nonNumeric" \/ ~job.description

C6_Witness ==
  \E m1, m2 \in jobMatches :
    /\ scoringLog[m1.id] = [kind |-> "number", n |-> 150] /\ m1.matchScore = 100
    /\ scoringLog[m2.id].kind = "throws" /\ m2.matchScore = 0

AppliedOf(u) == {m \in jobMatches : m.userId = u /\ m.applied}

\* C7: markAsApplied is idempotent with respect to appliedDate: once a record's
\* appliedDate is set, no later call changes it.
C7_AppliedDateSetOnce ==
  [][\A m \in jobMatches : \A m2 \in jobMatches' :
       (m2.id = m.id /\ m.appliedDate /= Null) => m2.appliedDate = m.appliedDate]_vars

\* C8: after any sequence of markAsApplied calls, a user's
\* analytics.totalJobsApplied is the number of that user's JobMatch records with
\* applied = true.
C8_AppliedCounterCountsRecords ==
  \A u \in Users : analytics[u].totalJobsApplied = Cardinality(AppliedOf(u))

\* C4: after any sequence of non-overlapping uploadResume and deleteResume calls
\* User.activeResumeId is the id of the user's active resume when there is one and
\* null otherwise.
C4_ActiveRefIsActiveResume ==
  \A u \in Users :
    /\ ActiveOf(resumes, u) = {} => activeResumeId[u] = Null
    /\ \A r \in ActiveOf(resumes, u) : activeResumeId[u] = r.id

\* C9: after every operation that changes an interview prep's questions
\* (generateInterview filling the bank, updateQuestionProgress changing a
\* question), questionStats.total is the number of questions and
\* progress.percentComplete is 100 * practiced / total rounded to the nearest
\* integer (halves up), and 0 when there is no question.
C9_StatsFollowQuestions ==
  \A p \in preps :
    LET n == Len(p.questionsJson)
        c == Cardinality({i \in 1..n : p.questionsJson[i].practiced})
        k == p.progress.percentComplete
    IN /\ p.questionStats.total = n
       /\ IF n = 0 THEN k = 0
                   ELSE 2 * n * k <= 200 * c + n /\ 200 * c + n < 2 * n * (k + 1)

\* a prep with two questions of which exactly one is practiced, right after
\* the updateQuestionProgress call that left it so
C9_Witness ==
  \E p \in preps :
    /\ res.op = "updateQuestionProgress" /\ res.status = 200 /\ res.id = p.id
    /\ Len(p.questionsJson) = 2
    /\ p.questionsJson[1].practiced /\ ~p.questionsJson[2].practiced
    /\ p.questionsJson[2].practicedCount > 0
    /\ p.progress.percentComplete = 50

\* C10: when an updateQuestionProgress call leaves every question of a prep
\* practiced, the prep is completed and completedAt is set once the call
\* has answered, whether the prep was generated or in_progress before.
C10_CompletedWhenAllPracticed ==
  \A p \in preps :
    ( /\ res.op = "updateQuestionProgress" /\ res.status = 200
      /\ res.id = p.id /\ res.user = p.userId
      /\ p.questionsJson /= <<>>
      /\ \A i \in DOMAIN p.questionsJson : p.questionsJson[i].practiced )
    => (p.status = "completed" /\ p.completedAt /= Null)

\* a two-question prep completed by an updateQuestionProgress call, which was
\* in_progress before the call since its other question was practiced earlier
C10_Witness ==
  \E p \in preps :
    /\ res.op = "updateQuestionProgress" /\ res.status = 200 /\ res.id = p.id
    /\ Len(p.questionsJson) = 2
    /\ \A i \in 1..2 : p.questionsJson[i].practiced /\ p.questionsJson[i].practicedCount = 1
    /\ p.status = "completed" /\ p.completedAt = MaxTime
    /\ p.progress.percentComplete = 100

\* some practice happened on prep p in the step to q: a question was marked
\* practiced or a practice session was recorded
Practiced(p, q) ==
  \/ Len(q.practiceSessions) > Len(p.practiceSessions)
  \/ \E i \in DOMAIN p.questionsJson :
       q.questionsJson[i].practicedCount > p.questionsJson[i].practicedCount

\* C11: when practice occurs on a prep that is generated (a question marked
\* practiced by updateQuestionProgress, or a session recorded by
\* recordPracticeSession), the prep is in_progress or completed after the
\* call, never still generated.
C11_PracticeLeavesGenerated ==
  [][\A p \in preps : \A q \in preps' :
       (q.id = p.id /\ p.status = "generated" /\ Practiced(p, q))
         => q.status \in {"in_progress", "completed"}]_vars

RECURSIVE SumFrom(_, _)
\* the sum of the averageConfidence fields of sessions i, i+1, ...
SumFrom(sessions, i) ==
  IF i > Len(sessions) THEN 0 ELSE sessions[i].averageConfidence + SumFrom(sessions, i + 1)

\* C12 as stated: after N >= 1 recorded sessions progress.averageConfidence
\* is exactly the arithmetic mean of the N sessions' averageConfidence.
C12_AverageIsExactMean ==
  \A p \in preps :
    p.practiceSessions /= <<>>
      => p.progress.averageConfidence * Len(p.practiceSessions) = SumFrom(p.practiceSessions, 1)

\* C12 amended: after N >= 1 recorded sessions progress.averageConfidence is
\* the arithmetic mean of the averageConfidence of all N sessions, the newest
\* included, rounded to the nearest integer (halves up).
C12_AverageIsRoundedMean ==
  \A p \in preps :
    LET n == Len(p.practiceSessions)
        total == SumFrom(p.practiceSessions, 1)
        k == p.progress.averageConfidence
    IN n >= 1 => (2 * n * k <= 2 * total + n /\ 2 * total + n < 2 * n * (k + 1))

\* two sessions recorded with confidences 0 and 1: the stored average is 1
C12_Witness ==
  \E p \in preps :
    /\ res.op = "recordPracticeSession" /\ res.status = 200 /\ res.id = p.id
    /\ Len(p.practiceSessions) = 2
    /\ SumFrom(p.practiceSessions, 1) = 1
    /\ p.progress.averageConfidence = 1

\* a generateInterview request that names a user and whose collaborator call throws
GenerationThrows ==
  \E auth \in Callers, bodyUser \in Callers :
    /\ auth /= "none" \/ bodyUser /= "none"
    /\ GenerateInterview(auth, bodyUser, [kind |-> "throws", n |-> 0])

C20_NeverLeftGenerating ==
  \A p \in preps :
    (res.op = "generateInterview" /\ res.id = p.id) => p.status \in {"generated", "draft"}

\* C14: no two User records have the same email compared case-insensitively
\* after trimming; a register call whose email matches an existing user's,
\* made after or concurrently with the other registration, is answered 400
\* and creates no user.
C14_EmailUnique ==
  /\ \A a \in accounts : \A b \in accounts :
       Normalize(a.email) = Normalize(b.email) => a.id = b.id
  /\ \A p \in Procs :
       regCalls[p].pc = "done" =>
         \/ /\ regCalls[p].status = 201
            /\ \E a \in accounts : a.id = regCalls[p].id /\ a.email = regCalls[p].email
         \/ /\ regCalls[p].status = 400
            /\ regCalls[p].id = Null
            /\ \E a \in accounts : a.email = regCalls[p].email
  /\ Cardinality(accounts) = nextUserId

\* both requests passed findOne for the same mailbox before either created:
\* one was answered 201, the other 400 by the duplicate key error
C14_Witness ==
  /\ regCalls["p1"].pc = "done" /\ regCalls["p2"].pc = "done"
  /\ regCalls["p1"].status = 201 /\ regCalls["p2"].status = 400
  /\ regCalls["p1"].email = regCalls["p2"].email
  /\ Cardinality(accounts) = 1

\* C16: for every ParsedResume, after the uploadResume that created it and
\* after every reanalyzeResume on it, the top-level skills, experience and
\* education equal the ones embedded in structuredJson.
C16_QuickFieldsMatchStructured ==
  \A r \in resumes :
    /\ r.skills = r.structuredJson.skills
    /\ r.experience = r.structuredJson.experience
    /\ r.education = r.structuredJson.education

\* a resume uploaded without experience whose re-analysis found an entry
C16_Witness ==
  \E r \in resumes :
    /\ res.op = "reanalyzeResume" /\ res.status = 200 /\ res.id = r.id
    /\ r.structuredJson.experience /= <<>>
    /\ r.structuredJson.skills /= {}
    /\ r.education = <<>>

\* the statuses that are further along than applied
PastApplied == {"interviewing", "offered", "rejected", "withdrawn"}

\* C17: markAsApplied never moves applicationStatus backward: on a record
\* that is interviewing, offered, rejected or withdrawn the call leaves
\* applicationStatus as it was.
C17_ApplyKeepsLaterStatus ==
  [][\A m \in jobMatches : \A m2 \in jobMatches' :
       ( /\ res'.op = "markAsApplied" /\ res'.status = 200 /\ res'.id = m.id
         /\ m2.id = m.id
         /\ m.applicationStatus \in PastApplied )
       => m2.applicationStatus = m.applicationStatus]_vars

\* C18: after any sequence of discoverJobs calls, a user's
\* analytics.totalJobsDiscovered is the number of JobMatch records stored
\* for that user.
C18_DiscoveredCounterCountsRows ==
  \A u \in Users :
    analytics[u].totalJobsDiscovered = Cardinality({m \in jobMatches : m.userId = u})

\* C19: once a prep is completed, a later updateQuestionProgress or
\* recordPracticeSession call on it leaves completedAt as it was stamped on
\* the transition into completed.
C19_CompletedAtStampedOnce ==
  [][\A p \in preps : \A q \in preps' :
       (q.id = p.id /\ p.status = "completed") => q.completedAt = p.completedAt]_vars

\* user u calls a handler on record id, which exists and belongs to another
\* user; statuses and sessions are the request bodies the call may carry
ForeignResumeCall(u, id) ==
  /\ \E r \in resumes : r.id = id /\ r.userId /= u
  /\ \/ \E fileOk \in BOOLEAN : DeleteResume(u, id, fileOk)
     \/ \E out \in AnalysisOutputs : ReanalyzeResume(u, id, out)

ForeignJobCall(u, id, statuses) ==
  /\ \E m \in jobMatches : m.id = id /\ m.userId /= u
  /\ \/ MarkAsApplied(u, id)
     \/ \E status \in statuses : UpdateApplicationStatus(u, id, status)
     \/ ToggleSaveJob(u, id)
     \/ HideJob(u, id)

ForeignPrepCall(u, id, sessions) ==
  /\ \E p \in preps : p.id = id /\ p.userId /= u
  /\ \/ \E questionId \in 1..MaxQuestions, body \in ProgressBodies :
          UpdateQuestionProgress(u, id, questionId, body)
     \/ \E body \in sessions : RecordPracticeSession(u, id, body)
     \/ DeleteInterviewPrep(u, id)

\* every handler answers with the caller and the id it was called with
ForeignCall(statuses, sessions) ==
  \E u \in Users :
    /\ u = res'.user
    /\ \/ \E id \in 1..MaxUploads : id = res'.id /\ ForeignResumeCall(u, id)
       \/ \E id \in 1..MaxJobs : id = res'.id /\ ForeignJobCall(u, id, statuses)
       \/ \E id \in 1..MaxPreps : id = res'.id /\ ForeignPrepCall(u, id, sessions)

\* the request bodies recordPracticeSession accepts
CompleteSessions == {b \in SessionBodies : b.questionsAttempted /= 0 /\ b.duration /= 0}

RecordsUnchanged == UNCHANGED <<resumes, activeResumeId, files, jobMatches, analytics, preps>>

\* C15 as stated: a call of a record-changing endpoint by an authenticated
\* user who does not own the record is answered 404 and leaves every record
\* and counter unchanged.
C15_ForeignCallGets404 ==
  [][ForeignCall(StatusInputs, SessionBodies) => (res'.status = 404 /\ RecordsUnchanged)]_vars

\* C15 amended: such a call leaves every record and counter unchanged and is
\* answered 404, or 400 when its body is refused before the record is looked
\* up (updateApplicationStatus with an invalid status, recordPracticeSession
\* without questionsAttempted or duration).
C15_ForeignCallChangesNothing ==
  [][ /\ ForeignCall(StatusInputs, SessionBodies) => (res'.status \in {400, 404} /\ RecordsUnchanged)
      /\ ForeignCall(ValidStatuses, CompleteSessions) => res'.status = 404 ]_vars

\* hideJob answered 404 to a user who does not own the job, which is not hidden
C15_Witness ==
  \E m \in jobMatches :
    /\ res.op = "hideJob" /\ res.status = 404 /\ res.id = m.id
    /\ res.user /= m.userId
    /\ ~m.isHidden

\* C21: every InterviewPrep that generateInterview creates is owned by the
\* user of the request's bearer token; a request without a token, or one that
\* names another user in its body, creates no record owned by that other user.
C21_PrepOwnedByTokenUser ==
  [][\A auth \in Callers, bodyUser \in Callers, gen \in Generations :
       (res'.op = "generateInterview" /\ GenerateInterview(auth, bodyUser, gen))
         => \A p \in preps' \ preps : p.userId = auth]_vars

\* uploads whose file is stored and whose text is extracted, while the
\* structuring collaborator fails
DegradedInputs ==
  {in \in UploadInputs : in.store /\ in.parse /\ ~in.textEmpty /\ in.structuring /= "ok"}

MaxShortUploads == 2

ShortUpload(u, in) == nextId < MaxShortUploads /\ UploadResume(u, in)

NextDegraded ==
  \/ \E u \in Users, in \in DegradedInputs : ShortUpload(u, in)
  \/ \E u \in Users, id \in 1..MaxShortUploads, fileOk \in BOOLEAN : DeleteResume(u, id, fileOk)

SpecDegraded == Init /\ [][NextDegraded]_vars

NextDelete ==
  \/ \E u \in Users, in \in OkInputs : ShortUpload(u, in)
  \/ \E u \in Users, id \in 1..MaxShortUploads, fileOk \in BOOLEAN, rowOk \in BOOLEAN :
       DeleteResumeRun(u, id, fileOk, rowOk)

SpecDelete == Init /\ [][NextDelete]_vars

\* C23: deleteResume on a resume of the caller deletes the stored file before
\* the row: when the file deletion fails the row is still deleted, the active
\* reference cleared if the resume was active, and the answer is 200; when the
\* row deletion fails the file stays deleted, the row stays and the answer is 500.
C23_FileDeletedBeforeRow ==
  [][\A u \in Users, id \in 1..MaxShortUploads, fileOk \in BOOLEAN, rowOk \in BOOLEAN :
       (res'.op = "deleteResume" /\ u = res'.user /\ id = res'.id
          /\ DeleteResumeRun(u, id, fileOk, rowOk))
         => \A r \in resumes :
              (r.id = id /\ r.userId = u) =>
                /\ fileOk => r.gridFSFileId \notin files'
                /\ ~fileOk => (r.gridFSFileId \in files' <=> r.gridFSFileId \in files)
                /\ rowOk => /\ r \notin resumes'
                            /\ res'.status = 200
                            /\ r.isActive => activeResumeId'[u] = Null
                /\ ~rowOk => (r \in resumes' /\ res'.status = 500)]_vars

\* deleteResume was answered 500 because the row deletion failed: the row is
\* still there and its file is gone
C23_Witness ==
  /\ res.op = "deleteResume" /\ res.status = 500
  /\ \E r \in resumes : r.id = res.id /\ r.userId = res.user /\ r.gridFSFileId \notin files

\* one toggleSaveJob request per process, on a job discovered unsaved
FirstToggle(p, u, id) == inflight[p].op = "none" /\ TgFind(p, u, id)

NextToggle ==
  \/ \E u \in Users, in \in OkInputs : FirstUpload(u, in)
  \/ \E u \in Users, job \in ApplyJobs : DiscoverOne(u, job)
  \/ \E p \in Procs, u \in Users, id \in 1..MaxJobs : FirstToggle(p, u, id)
  \/ \E p \in Procs : TgSave(p)

SpecToggle == Init /\ [][NextToggle]_vars

\* C24: once two toggleSaveJob calls on the same JobMatch have both completed,
\* run one after the other or interleaved between findOne and save, isSaved
\* has its original value again (false for a discovered job).
C24_TwoTogglesRestoreFlag ==
  \A m \in jobMatches :
    (\A p \in Procs : inflight[p].op = "done" /\ inflight[p].doc.id = m.id) => ~m.isSaved

\* prep.save() of a loaded copy changed to doc: an update of the stored
\* document that $sets the modified paths, which for questionsJson and
\* progress are the single fields of a question and of the aggregate
SavePrepModified(stored, copy, doc) ==
  [f \in DOMAIN stored |->
     IF f = "questionsJson"
       THEN [i \in DOMAIN stored.questionsJson |->
               SaveModified(stored.questionsJson[i], copy.questionsJson[i], doc.questionsJson[i])]
     ELSE IF f \in {"progress", "questionStats"}
       THEN SaveModified(stored[f], copy[f], doc[f])
     ELSE IF doc[f] /= copy[f] THEN doc[f] ELSE stored[f]]

\* ---- updateQuestionProgress run as two steps, one per await, so that two
\* requests can interleave. Step 1: InterviewPrep.findOne({_id: id, userId})
\* and the lookup of the question
QpFind(p, u, id, questionId, body) ==
  /\ inflight[p].op \in {"none", "done"}
  /\ UNCHANGED <<resumeVars, jobVars, prepVars, authVars>>
  /\ LET found == {d \in preps : d.id = id /\ d.userId = u} IN
     IF found = {} \/ \A d \in found : questionId \notin DOMAIN d.questionsJson
       THEN /\ res' = Response("updateQuestionProgress", u, id, 404)
            /\ UNCHANGED inflight
       ELSE \E d \in found :
            /\ inflight' = [inflight EXCEPT ![p] =
                 [op |-> "updateQuestionProgress", user |-> u, doc |-> d,
                  arg |-> [questionId |-> questionId, body |-> body]]]
            /\ UNCHANGED res

\* step 2: the changes to the loaded copy, prep.save() with its pre('save')
\* hook, and the 200 response
QpSave(p) ==
  /\ inflight[p].op = "updateQuestionProgress"
  /\ UNCHANGED <<resumeVars, jobVars, nextPrepId, authVars>>
  /\ LET copy == inflight[p].doc
         questionId == inflight[p].arg.questionId
         changed == [copy EXCEPT !.questionsJson[questionId] = UpdateQuestion(@, inflight[p].arg.body)]
         doc == PreSave(copy, UpdateStatus(UpdateProgress(changed), now), now) IN
     \E stored \in {d \in preps : d.id = copy.id} :
       /\ preps' = (preps \ {stored}) \cup {SavePrepModified(stored, copy, doc)}
       /\ inflight' = [inflight EXCEPT ![p].op = "done"]
       /\ res' = Response("updateQuestionProgress", inflight[p].user, copy.id, 200)

\* one updateQuestionProgress request per process, marking a question practiced
MarkBodies == {b \in PracticeBodies : b.practiced = "true"}

FirstProgress(p, u, id, questionId, body) ==
  inflight[p].op = "none" /\ QpFind(p, u, id, questionId, body)

NextConcProgress ==
  \/ \E u \in Users, gen \in ReadyBanks : GenerateReady(u, gen)
  \/ \E p \in Procs, u \in Users, id \in 1..MaxPreps, questionId \in 1..MaxQuestions, body \in MarkBodies :
       FirstProgress(p, u, id, questionId, body)
  \/ \E p \in Procs : QpSave(p)
  \/ Tick

SpecConcProgress == Init /\ [][NextConcProgress]_vars

\* C25: once two concurrent updateQuestionProgress calls that mark different
\* questions of the same prep practiced have both completed,
\* progress.questionsCompleted is the number of practiced questions and
\* progress.percentComplete is round(100 * questionsCompleted / total).
C25_ConcurrentProgressCounts ==
  \A d \in preps :
    ( /\ \A p \in Procs : inflight[p].op = "done" /\ inflight[p].doc.id = d.id
      /\ \A p, q \in Procs : p /= q => inflight[p].arg.questionId /= inflight[q].arg.questionId )
      => /\ d.progress.questionsCompleted = CompletedCount(d.questionsJson)
         /\ d.progress.percentComplete = RoundPercent(d.progress.questionsCompleted, Len(d.questionsJson))

\* C26: in every reachable state a prep whose status is completed has
\* progress.percentComplete = 100, also after updateQuestionProgress has set
\* practiced = false on a question of a completed prep.
C26_CompletedMeansAllPracticed ==
  \A d \in preps : d.status = "completed" => d.progress.percentComplete = 100

\* C27: under every sequence of markAsApplied and updateApplicationStatus
\* calls a JobMatch has applied = true exactly when its applicationStatus is
\* not not_applied.
C27_AppliedIffStatusSet ==
  \A m \in jobMatches : m.applied <=> m.applicationStatus /= "not_applied"

\* C28: an uploadResume call that is answered with an error, whichever step
\* failed, leaves the isActive value of each of the user's resumes and the
\* user's activeResumeId as they were.
C28_FailedUploadChangesNothing ==
  [][\A u \in Users, in \in UploadInputs :
       (res'.op = "uploadResume" /\ u = res'.user /\ res'.status = 500 /\ UploadResume(u, in))
         => /\ \A r \in ResumesOf(resumes, u) :
                 \E r2 \in resumes' : r2.id = r.id /\ r2.isActive = r.isActive
            /\ activeResumeId'[u] = activeResumeId[u]]_vars

\* updateQuestionProgress requests of which some overlap: a request that runs
\* between another one's findOne and save
NextStale ==
  \/ \E u \in Users, gen \in ReadyBanks : GenerateReady(u, gen)
  \/ \E u \in Users, id \in 1..MaxPreps, questionId \in 1..MaxQuestions, body \in MarkBodies :
       UpdateQuestionProgress(u, id, questionId, body)
  \/ \E p \in Procs, u \in Users, id \in 1..MaxPreps, questionId \in 1..MaxQuestions, body \in MarkBodies :
       FirstProgress(p, u, id, questionId, body)
  \/ \E p \in Procs : QpSave(p)

SpecStale == Init /\ [][NextStale]_vars

\* position of a status in draft < generating < generated < in_progress < completed
StatusRank(s) ==
  CASE s = "draft" -> 0 [] s = "generating" -> 1 [] s = "generated" -> 2
    [] s = "in_progress" -> 3 [] s = "completed" -> 4

\* C29: the status of an InterviewPrep never moves backward in
\* draft < generating < generated < in_progress < completed, except from
\* generating to draft; in particular completed is never left.
C29_StatusNeverMovesBack ==
  [][\A d \in preps : \A e \in preps' :
       d.id = e.id =>
         \/ StatusRank(e.status) >= StatusRank(d.status)
         \/ (d.status = "generating" /\ e.status = "draft")]_vars

\* ---- generateRandomQuestions
Companies == {"Acme", "Globex"}

\* request bodies: companyName given or left out (''); role and technologies left out
RandomRequests == [companyName : Companies \cup {""}]

\* the questions of a set of preps, each named by its prep and its position
QuestionsOf(ps) == UNION {{<<d.id, i>> : i \in DOMAIN d.questionsJson} : d \in ps}

\* getDefaultQuestions returns ten built-in questions
DefaultCount == 10
DefaultQuestions == {<<Null, i>> : i \in 1..DefaultCount}

\* InterviewPrep.find({}) and InterviewPrep.find(query): neither filter names userId
FindPreps(ps, u) == ps

\* the candidate pool, totalAvailable and matchedPreps of one request
RandomQuestions(ps, u, body) ==
  LET allPreps == FindPreps(ps, u)
      matchingPreps ==
        IF allPreps /= {} /\ body.companyName /= ""
          THEN {d \in FindPreps(ps, u) : d.company = body.companyName}
          ELSE {}
      found == IF matchingPreps /= {} THEN QuestionsOf(matchingPreps) ELSE QuestionsOf(allPreps)
      allQuestions == IF found = {} THEN DefaultQuestions ELSE found
  IN [pool |-> allQuestions,
      totalAvailable |-> Cardinality(allQuestions),
      matchedPreps |-> Cardinality(matchingPreps)]

\* one request run from start to finish; it reads, and writes nothing
GenerateRandomQuestions(u, body) ==
  /\ UNCHANGED <<resumeVars, jobVars, prepVars, authVars, flightVars>>
  /\ LET answer == RandomQuestions(preps, u, body) IN
     res' = [op |-> "generateRandomQuestions", user |-> u, id |-> Null, status |-> 200,
             request |-> body, pool |-> answer.pool,
             totalAvailable |-> answer.totalAvailable, matchedPreps |-> answer.matchedPreps]

OkBanks == {[kind |-> "ok", n |-> n] : n \in 0..MaxQuestions}

GenerateAt(u, companyName, gen) ==
  preps = {} /\ GenerateInterviewFor(u, "none", companyName, gen)

NextRandom ==
  \/ \E u \in Users, companyName \in Companies, gen \in OkBanks : GenerateAt(u, companyName, gen)
  \/ \E u \in Users, id \in 1..MaxPreps, questionId \in 1..MaxQuestions, body \in MarkBodies :
       UpdateQuestionProgress(u, id, questionId, body)
  \/ \E u \in Users, body \in RandomRequests : GenerateRandomQuestions(u, body)

SpecRandom == Init /\ [][NextRandom]_vars

\* C30: the candidate pool, totalAvailable and matchedPreps that
\* generateRandomQuestions answers are those the same request gets from the
\* database without the other users' preps: only the caller's preps or the
\* built-in defaults are drawn from.
C30_PoolFromCallersPreps ==
  res.op = "generateRandomQuestions" =>
    LET own == RandomQuestions({d \in preps : d.userId = res.user}, res.user, res.request) IN
    /\ res.pool = own.pool
    /\ res.totalAvailable = own.totalAvailable
    /\ res.matchedPreps = own.matchedPreps

====
